---- MODULE Spec2Model ----
(* A model of two pieces of acr-builder:                                    *)
(*   graph/registry_credential.go  CreateRegistryCredentialFromString       *)
(*   builder/digest_remote.go      remoteDigest.PopulateDigest              *)
(* The classifier is a pure function, exercised by SpecClassify over a      *)
(* bounded set of decoded inputs.  PopulateDigest is a sequence of calls by *)
(* one caller, exercised by SpecResolve; the only suspension point of a     *)
(* call is the registry resolver's network call.                            *)
EXTENDS Naturals, Sequences, FiniteSets, TLC

VARIABLES
    \* ---- classifier (graph/registry_credential.go)
    str,            \* the serialized input handed to the classifier
    cpc,            \* "ready": not classified yet, "done": result holds the return
    result,         \* the (retVal, err) pair returned for str
    \* ---- digest resolver (builder/digest_remote.go)
    registryCreds,  \* d.registryCreds: registry host -> resolved credential pair
    ref,            \* the image.Reference object the caller owns
    pc,             \* "idle": no call running, "resolving": resolver.Resolve in flight
    argNil,         \* the running (or last) call was PopulateDigest(ctx, nil)
    ctxDone,        \* the running call's context has been cancelled
    invocations,    \* the resolver.Resolve invocations made by the running (or last) call
    ret,            \* the error returned by the last finished call
    \* ---- history of the running (or last) call
    calls,          \* PopulateDigest calls started so far
    refAtCall,      \* ref as it was when the call started
    parserCalls,    \* reference.Parse invocations made by the call
    priorSuccess    \* an earlier PopulateDigest(ctx, ref), ref non-nil, returned nil

cvars == <<str, cpc, result>>
rvars == <<registryCreds, ref, pc, argNil, ctxDone, invocations, ret,
           calls, refAtCall, parserCalls, priorSuccess>>
vars == <<cvars, rvars>>

(***************************************************************************)
(* Strings.  The two provider-type fields are sequences of one-character   *)
(* strings so that strings.ToLower is computed rune by rune; every other   *)
(* field is only compared with "" and copied, and is a plain string.       *)
(***************************************************************************)
UpperRunes ==
    <<"A","B","C","D","E","F","G","H","I","J","K","L","M",
      "N","O","P","Q","R","S","T","U","V","W","X","Y","Z">>

LowerRunes ==
    <<"a","b","c","d","e","f","g","h","i","j","k","l","m",
      "n","o","p","q","r","s","t","u","v","w","x","y","z">>

ToLowerRune(c) ==
    IF \E i \in 1..Len(UpperRunes) : UpperRunes[i] = c
    THEN LowerRunes[CHOOSE i \in 1..Len(UpperRunes) : UpperRunes[i] = c]
    ELSE c

ToLowerIdentity(s) == s

ToLower(s) == [i \in 1..Len(s) |-> ToLowerRune(s[i])]

Opaque == <<"o","p","a","q","u","e">>

VaultSecret == <<"v","a","u","l","t","s","e","c","r","e","t">>

EmptyType == <<>>

(***************************************************************************)
(* RegistryCredential and the errors of the classifier.                    *)
(***************************************************************************)
RegistryCredential(reg, user, utype, pass, ptype, id, arm) ==
    [Registry |-> reg, Username |-> user, UsernameType |-> utype,
     Password |-> pass, PasswordType |-> ptype,
     Identity |-> id, ArmResource |-> arm]

ZeroCredential == RegistryCredential("", "", EmptyType, "", EmptyType, "", "")

errUnmarshal == "unable to unmarshal Credentials from string"

errInvalidRegName == "registry name can't be empty"

errInvalidUsername == "username can't be empty"

errInvalidPassword == "password can't be empty"

errInvalidIdentity == "identity can't be empty"

errInvalidArmResourceID == "armResource can't be empty"

errCouldNotClassify == "unable to classify credential into opaque, vault or msi"

NoError == "nil"

\* return nil, err
Fail(err) == [retVal |-> <<>>, err |-> err]

\* return retVal, nil
Return(cred) == [retVal |-> <<cred>>, err |-> NoError]

\* json.Unmarshal([]byte(str), &cred): a malformed blob is an error, a
\* well-formed one fills the fields it names and leaves the others zero.
Unmarshal(s) ==
    IF s.wellFormed THEN [err |-> NoError, cred |-> s.fields]
    ELSE [err |-> errUnmarshal, cred |-> ZeroCredential]

isOpaque(usernameType, passwordType) ==
    usernameType = Opaque /\ passwordType = Opaque

hasVaultSecret(usernameType, passwordType) ==
    usernameType = VaultSecret \/ passwordType = VaultSecret

isMSIEither(usernameType, passwordType) ==
    usernameType = EmptyType \/ passwordType = EmptyType

isMSI(usernameType, passwordType) ==
    usernameType = EmptyType /\ passwordType = EmptyType

OpaqueBranch(cred, usernameType, passwordType) ==
    IF cred.Username = "" THEN Fail(errInvalidUsername)
    ELSE IF cred.Password = "" THEN Fail(errInvalidPassword)
    ELSE Return(RegistryCredential(cred.Registry, cred.Username, usernameType,
                                   cred.Password, passwordType, "", ""))

VaultBranchNoIdentityCheck(cred, usernameType, passwordType) ==
    IF cred.Username = "" THEN Fail(errInvalidUsername)
    ELSE IF cred.Password = "" THEN Fail(errInvalidPassword)
    ELSE Return(RegistryCredential(cred.Registry, cred.Username, usernameType,
                                   cred.Password, passwordType,
                                   cred.Identity, ""))

VaultBranchIdentityFirst(cred, usernameType, passwordType) ==
    IF cred.Identity = "" THEN Fail(errInvalidIdentity)
    ELSE IF cred.Username = "" THEN Fail(errInvalidUsername)
    ELSE IF cred.Password = "" THEN Fail(errInvalidPassword)
    ELSE Return(RegistryCredential(cred.Registry, cred.Username, usernameType,
                                   cred.Password, passwordType,
                                   cred.Identity, ""))

VaultBranch(cred, usernameType, passwordType) ==
    IF cred.Username = "" THEN Fail(errInvalidUsername)
    ELSE IF cred.Password = "" THEN Fail(errInvalidPassword)
    ELSE IF cred.Identity = "" THEN Fail(errInvalidIdentity)
    ELSE Return(RegistryCredential(cred.Registry, cred.Username, usernameType,
                                   cred.Password, passwordType,
                                   cred.Identity, ""))

MSIBranchArmFirst(cred) ==
    IF cred.ArmResource = "" THEN Fail(errInvalidArmResourceID)
    ELSE IF cred.Identity = "" THEN Fail(errInvalidIdentity)
    ELSE Return(RegistryCredential(cred.Registry, "", EmptyType, "", EmptyType,
                                   cred.Identity, cred.ArmResource))

MSIBranch(cred) ==
    IF cred.Identity = "" THEN Fail(errInvalidIdentity)
    ELSE IF cred.ArmResource = "" THEN Fail(errInvalidArmResourceID)
    ELSE Return(RegistryCredential(cred.Registry, "", EmptyType, "", EmptyType,
                                   cred.Identity, cred.ArmResource))

\* the if / else-if chain over the three shape flags
ClassifyShape(cred, usernameType, passwordType) ==
    IF isOpaque(usernameType, passwordType)
        THEN OpaqueBranch(cred, usernameType, passwordType)
    ELSE IF hasVaultSecret(usernameType, passwordType)
        THEN VaultBranch(cred, usernameType, passwordType)
    ELSE IF isMSI(usernameType, passwordType)
        THEN MSIBranch(cred)
    ELSE Fail(errCouldNotClassify)

CreateNoRegistryCheck(s) ==
    LET u == Unmarshal(s) IN
    IF u.err # NoError THEN Fail(errUnmarshal)
    ELSE ClassifyShape(u.cred, ToLower(u.cred.UsernameType),
                       ToLower(u.cred.PasswordType))

CreateRegistryCredentialFromString(s) ==
    LET u == Unmarshal(s)
        cred == u.cred
        usernameType == ToLower(cred.UsernameType)
        passwordType == ToLower(cred.PasswordType)
    IN  IF u.err # NoError THEN Fail(errUnmarshal)
        ELSE IF cred.Registry = "" THEN Fail(errInvalidRegName)
        ELSE ClassifyShape(cred, usernameType, passwordType)

(***************************************************************************)
(* The inputs of the classifier.                                           *)
(***************************************************************************)
TypeValues ==
    { EmptyType, Opaque, VaultSecret,
      <<"O","p","a","q","u","e">>,
      <<"O","P","A","Q","U","E">>,
      <<"V","a","u","l","t","S","e","c","r","e","t">>,
      <<"b","a","s","i","c">> }

DecodedCredentials ==
    { RegistryCredential(reg, user, ut, pass, pt, id, arm) :
        reg \in {"", "r.io"}, user \in {"", "u"}, ut \in TypeValues,
        pass \in {"", "p"}, pt \in TypeValues,
        id \in {"", "id"}, arm \in {"", "arm"} }

Inputs ==
    { [wellFormed |-> TRUE, fields |-> c] : c \in DecodedCredentials }
    \cup { [wellFormed |-> FALSE, fields |-> ZeroCredential] }

NoResult == [retVal |-> <<>>, err |-> "not returned"]

\* the caller calls CreateRegistryCredentialFromString(str)
Classify ==
    /\ cpc = "ready"
    /\ result' = CreateRegistryCredentialFromString(str)
    /\ cpc' = "done"
    /\ UNCHANGED <<str, rvars>>

\* the caller takes up the next serialized blob
NextInput ==
    /\ cpc = "done"
    /\ str' \in Inputs
    /\ cpc' = "ready"
    /\ result' = NoResult
    /\ UNCHANGED rvars

(***************************************************************************)
(* The digest resolver.                                                    *)
(***************************************************************************)
MaxCalls == 3

\* builder.NoBaseImageSpecifierLatest, the "no base image" marker
NoBaseImageSpecifierLatest == "scratch:latest"

Registries == {"r.io", "p.io"}

Repositories == {"app", "App"}

Tags == {"", "v1"}

\* what reference.Parse accepts: a repository name is lower case
ValidRepositories == {"app"}

PresetDigest == "sha256:000"

\* desc.Digest.String() of a descriptor the resolver returns
ResolverDigests == {"sha256:aaa", "sha256:bbb"}

Reference(reg, repo, tag, display, digest) ==
    [Registry |-> reg, Repository |-> repo, Tag |-> tag,
     Reference |-> display, Digest |-> digest]

References ==
    { Reference(reg, repo, tag, display, digest) :
        reg \in Registries, repo \in Repositories, tag \in Tags,
        display \in {"app", NoBaseImageSpecifierLatest},
        digest \in {"", PresetDigest} }

\* graph.RegistryLoginCredentials: host -> resolved username and password
ResolvedPairs == [Username : {"", "u"}, Password : {"", "p"}]

CredentialLookups == UNION { [D -> ResolvedPairs] : D \in SUBSET Registries }

Error(kind, names, cause) == [kind |-> kind, names |-> names, cause |-> cause]

NilError == Error(NoError, "", "")

NotReturned == Error("not returned", "", "")

\* fmt.Errorf("error fetching credentials for '%s'", ref.Registry)
errFetchingCredentials(r) == Error("error fetching credentials for", r.Registry, "")

\* errors.Wrapf(err, "Failed to parse the reference %s", ref.Reference)
errParse(r) == Error("Failed to parse the reference", r.Reference, "invalid reference format")

\* errors.Wrapf(err, "Failed to Resolve the reference '%s'", ref.Reference)
errResolve(r, cause) == Error("Failed to Resolve the reference", r.Reference, cause)

ResolveCauses == {"context canceled", "registry error"}

ShortCircuitIgnoresDigest(nilArg, r) ==
    \/ nilArg
    \/ r.Reference = NoBaseImageSpecifierLatest

\* the three early returns of PopulateDigest
ShortCircuit(nilArg, r) ==
    \/ nilArg
    \/ r.Digest # ""
    \/ r.Reference = NoBaseImageSpecifierLatest

CredentialsUnresolvedBoth(creds, r) ==
    /\ r.Registry \in DOMAIN creds
    /\ creds[r.Registry].Username = "" /\ creds[r.Registry].Password = ""

\* cred, ok := d.registryCreds[ref.Registry]; ok and one resolved value empty
CredentialsUnresolved(creds, r) ==
    /\ r.Registry \in DOMAIN creds
    /\ (creds[r.Registry].Username = "" \/ creds[r.Registry].Password = "")

\* opts: Credentials is nil (<<>>) unless the lookup has an entry, and then a
\* callback returning the entry's pair for whatever host it is asked about
ResolverOptions(creds, r) ==
    [Credentials |-> IF r.Registry \in DOMAIN creds
                     THEN <<creds[r.Registry]>> ELSE <<>>]

\* reference.Parse(fullRefPath) followed by fullRef.String()
ReferenceParse(path) ==
    IF path \in { reg \o "/" \o repo \o ":" \o tag :
                    reg \in Registries, repo \in ValidRepositories,
                    tag \in (Tags \ {""}) \cup {"latest"} }
    THEN [err |-> FALSE, str |-> path]
    ELSE [err |-> TRUE, str |-> ""]

getReferencePath(r) ==
    LET tag == IF r.Tag # "" THEN r.Tag ELSE "latest"
        fullRefPath == r.Registry \o "/" \o r.Repository \o ":" \o tag
    IN  ReferenceParse(fullRefPath)

\* a call enters PopulateDigest(ctx, ref) with a context not yet cancelled
Enter(nilArg) ==
    /\ pc = "idle"
    /\ calls < MaxCalls
    /\ calls' = calls + 1
    /\ argNil' = nilArg
    /\ refAtCall' = ref
    /\ ctxDone' = FALSE
    /\ priorSuccess' = (priorSuccess \/ (calls > 0 /\ ~argNil /\ ret = NilError))
    /\ UNCHANGED <<registryCreds, cvars>>

\* ref == nil, ref.Digest != "" or the marker: return nil
PopulateDigestNoop ==
    \E nilArg \in BOOLEAN :
        /\ Enter(nilArg)
        /\ ShortCircuit(nilArg, ref)
        /\ ret' = NilError
        /\ parserCalls' = 0
        /\ invocations' = <<>>
        /\ UNCHANGED <<ref, pc>>

\* the lookup has an entry with an empty resolved value: return the error
PopulateDigestCredentialError ==
    /\ Enter(FALSE)
    /\ ~ShortCircuit(FALSE, ref)
    /\ CredentialsUnresolved(registryCreds, ref)
    /\ ret' = errFetchingCredentials(ref)
    /\ parserCalls' = 0
    /\ invocations' = <<>>
    /\ UNCHANGED <<ref, pc>>

\* getReferencePath fails: return its error
PopulateDigestParseError ==
    /\ Enter(FALSE)
    /\ ~ShortCircuit(FALSE, ref)
    /\ ~CredentialsUnresolved(registryCreds, ref)
    /\ getReferencePath(ref).err
    /\ ret' = errParse(ref)
    /\ parserCalls' = 1
    /\ invocations' = <<>>
    /\ UNCHANGED <<ref, pc>>

\* resolver.Resolve(ctx, imageRef) is called and the call waits for it
PopulateDigestResolve ==
    /\ Enter(FALSE)
    /\ ~ShortCircuit(FALSE, ref)
    /\ ~CredentialsUnresolved(registryCreds, ref)
    /\ ~getReferencePath(ref).err
    /\ parserCalls' = 1
    /\ invocations' = <<[imageRef |-> getReferencePath(ref).str,
                         opts |-> ResolverOptions(registryCreds, ref)]>>
    /\ pc' = "resolving"
    /\ ret' = NotReturned
    /\ UNCHANGED ref

\* the caller cancels ctx while the resolver's network call is in flight
Cancel ==
    /\ pc = "resolving"
    /\ ~ctxDone
    /\ ctxDone' = TRUE
    /\ UNCHANGED <<registryCreds, ref, pc, argNil, invocations, ret,
                   calls, refAtCall, parserCalls, priorSuccess, cvars>>

ResolveErrorWritesDigest ==
    \E cause \in ResolveCauses, d \in ResolverDigests :
        /\ pc = "resolving"
        /\ cause = "context canceled" => ctxDone
        /\ ret' = errResolve(ref, cause)
        /\ ref' = [ref EXCEPT !.Digest = d]
        /\ pc' = "idle"
        /\ UNCHANGED <<registryCreds, argNil, ctxDone, invocations,
                       calls, refAtCall, parserCalls, priorSuccess, cvars>>

\* resolver.Resolve returns an error (ctx.Err() once ctx is cancelled)
ResolveError ==
    \E cause \in ResolveCauses :
        /\ pc = "resolving"
        /\ cause = "context canceled" => ctxDone
        /\ ret' = errResolve(ref, cause)
        /\ pc' = "idle"
        /\ UNCHANGED <<registryCreds, ref, argNil, ctxDone, invocations,
                       calls, refAtCall, parserCalls, priorSuccess, cvars>>

\* resolver.Resolve returns a descriptor: ref.Digest = desc.Digest.String()
ResolveOK ==
    \E d \in ResolverDigests :
        /\ pc = "resolving"
        /\ ref' = [ref EXCEPT !.Digest = d]
        /\ ret' = NilError
        /\ pc' = "idle"
        /\ UNCHANGED <<registryCreds, argNil, ctxDone, invocations,
                       calls, refAtCall, parserCalls, priorSuccess, cvars>>

(***************************************************************************)
(* Specifications.                                                         *)
(***************************************************************************)
ResolverIdle ==
    /\ registryCreds = << >>
    /\ ref = Reference("r.io", "app", "", "app", "")
    /\ pc = "idle"
    /\ argNil = FALSE
    /\ ctxDone = FALSE
    /\ invocations = <<>>
    /\ ret = NotReturned
    /\ calls = 0
    /\ refAtCall = ref
    /\ parserCalls = 0
    /\ priorSuccess = FALSE

ClassifierIdle ==
    /\ str = [wellFormed |-> FALSE, fields |-> ZeroCredential]
    /\ cpc = "done"
    /\ result = NoResult

InitClassify ==
    /\ str \in Inputs
    /\ cpc = "ready"
    /\ result = NoResult
    /\ ResolverIdle

NextClassify == Classify \/ NextInput

SpecClassify == InitClassify /\ [][NextClassify]_vars

InitResolve ==
    /\ registryCreds \in CredentialLookups
    /\ ref \in References
    /\ pc = "idle"
    /\ argNil = FALSE
    /\ ctxDone = FALSE
    /\ invocations = <<>>
    /\ ret = NotReturned
    /\ calls = 0
    /\ refAtCall = ref
    /\ parserCalls = 0
    /\ priorSuccess = FALSE
    /\ ClassifierIdle

NextResolve ==
    \/ PopulateDigestNoop
    \/ PopulateDigestCredentialError
    \/ PopulateDigestParseError
    \/ PopulateDigestResolve
    \/ Cancel
    \/ ResolveError
    \/ ResolveOK

SpecResolve == InitResolve /\ [][NextResolve]_vars

(***************************************************************************)
(* Properties of the classifier, checked under SpecClassify.  They read    *)
(* the input's type fields by their spellings, not through ToLower.        *)
(***************************************************************************)
OpaqueSpellings == { Opaque, <<"O","p","a","q","u","e">>, <<"O","P","A","Q","U","E">> }

VaultSecretSpellings ==
    { VaultSecret, <<"V","a","u","l","t","S","e","c","r","e","t">> }

\* the classifier has returned for a well-formed blob
Classified == cpc = "done" /\ str.wellFormed

in == str.fields

OpaqueShape(c) ==
    /\ c.UsernameType = Opaque /\ c.PasswordType = Opaque
    /\ c.Username # "" /\ c.Password # ""
    /\ c.Identity = "" /\ c.ArmResource = ""

VaultSecretShape(c) ==
    /\ (c.UsernameType = VaultSecret \/ c.PasswordType = VaultSecret)
    /\ c.Username # "" /\ c.Password # "" /\ c.Identity # ""
    /\ c.ArmResource = ""

ManagedIdentityShape(c) ==
    /\ c.UsernameType = EmptyType /\ c.PasswordType = EmptyType
    /\ c.Identity # "" /\ c.ArmResource # ""
    /\ c.Username = "" /\ c.Password = ""

ExactlyOne(a, b, c) ==
    \/ a /\ ~b /\ ~c
    \/ ~a /\ b /\ ~c
    \/ ~a /\ ~b /\ c

\* C1: every credential a successful classification returns has a non-empty
\* registry and satisfies exactly one of the three shapes in full (opaque,
\* vault-secret, managed-identity); a credential is returned exactly when the
\* error is nil.
C1_ReturnedCredentialHasOneShape ==
    cpc = "done" =>
        /\ (result.err = NoError) <=> (result.retVal # <<>>)
        /\ result.retVal # <<>> =>
            LET c == result.retVal[1] IN
            /\ c.Registry # ""
            /\ ExactlyOne(OpaqueShape(c), VaultSecretShape(c), ManagedIdentityShape(c))

\* a vault-secret credential with asymmetric tags, classified from an input
\* that also supplied armResource
C1_Witness ==
    /\ Classified
    /\ in.ArmResource # ""
    /\ result.retVal # <<>>
    /\ result.retVal[1].UsernameType = Opaque
    /\ result.retVal[1].PasswordType = VaultSecret
    /\ VaultSecretShape(result.retVal[1])

BothOpaqueWithSecrets ==
    /\ Classified
    /\ in.UsernameType \in OpaqueSpellings /\ in.PasswordType \in OpaqueSpellings
    /\ in.Username # "" /\ in.Password # ""

OpaqueSuccess ==
    /\ result.err = NoError
    /\ result.retVal # <<>>
    /\ result.retVal[1].Identity = "" /\ result.retVal[1].ArmResource = ""

\* C2 as stated: whenever both type fields are "opaque" up to case and username
\* and password are non-empty, classification succeeds with identity and
\* armResource empty.
C2_AllOpaqueInputsSucceed == BothOpaqueWithSecrets => OpaqueSuccess

\* C2 (amended): whenever the registry is non-empty, both type fields are
\* "opaque" up to case and username and password are non-empty, classification
\* succeeds and the result's identity and armResource are empty, also when the
\* input supplied them.
C2_OpaqueInputsWithRegistrySucceed ==
    (BothOpaqueWithSecrets /\ in.Registry # "") => OpaqueSuccess

\* a mixed-case opaque input that supplied identity and armResource
C2_Witness ==
    /\ BothOpaqueWithSecrets /\ in.Registry # ""
    /\ in.UsernameType # Opaque
    /\ in.Identity # "" /\ in.ArmResource # ""
    /\ OpaqueSuccess

\* C3: every well-formed input with an empty registry fails with
\* errInvalidRegName, whatever its other fields are.
C3_EmptyRegistryIsMissingRegistry ==
    (Classified /\ in.Registry = "") => result = Fail(errInvalidRegName)

\* an empty registry on an opaque input whose username is empty as well
C3_Witness ==
    /\ Classified /\ in.Registry = ""
    /\ in.UsernameType = Opaque /\ in.PasswordType = Opaque
    /\ in.Username = ""
    /\ result = Fail(errInvalidRegName)

MatchesNoShape ==
    /\ ~(in.UsernameType \in OpaqueSpellings /\ in.PasswordType \in OpaqueSpellings)
    /\ in.UsernameType \notin VaultSecretSpellings
    /\ in.PasswordType \notin VaultSecretSpellings
    /\ ~(in.UsernameType = EmptyType /\ in.PasswordType = EmptyType)

AtMostOne(a, b, c) == ~(a /\ b) /\ ~(a /\ c) /\ ~(b /\ c)

\* C4: a well-formed input with a non-empty registry whose type pair matches
\* none of the three shapes fails with errCouldNotClassify whatever its other
\* fields are, and at most one of the three shape flags holds of any input.
C4_UnclassifiableAndExclusive ==
    Classified =>
        /\ (in.Registry # "" /\ MatchesNoShape) => result = Fail(errCouldNotClassify)
        /\ AtMostOne(isOpaque(ToLower(in.UsernameType), ToLower(in.PasswordType)),
                     hasVaultSecret(ToLower(in.UsernameType), ToLower(in.PasswordType)),
                     isMSI(ToLower(in.UsernameType), ToLower(in.PasswordType)))

\* one type field "opaque", the other empty, every other field supplied
C4_Witness ==
    /\ Classified /\ in.Registry # ""
    /\ in.UsernameType = Opaque /\ in.PasswordType = EmptyType
    /\ in.Username # "" /\ in.Password # ""
    /\ in.Identity # "" /\ in.ArmResource # ""
    /\ result = Fail(errCouldNotClassify)

ExactlyOneVaultSecret ==
    (in.UsernameType \in VaultSecretSpellings) # (in.PasswordType \in VaultSecretSpellings)

\* C5: with a non-empty registry and exactly one type field "vaultsecret", the
\* result is errInvalidUsername if username is empty, else errInvalidPassword
\* if password is empty, else errInvalidIdentity if identity is empty, else a
\* credential; armResource plays no part.
C5_VaultSecretRequiredFieldsInOrder ==
    (Classified /\ in.Registry # "" /\ ExactlyOneVaultSecret) =>
        IF in.Username = "" THEN result = Fail(errInvalidUsername)
        ELSE IF in.Password = "" THEN result = Fail(errInvalidPassword)
        ELSE IF in.Identity = "" THEN result = Fail(errInvalidIdentity)
        ELSE result.err = NoError /\ result.retVal # <<>>

\* username and identity both empty: the username is the one reported
C5_Witness ==
    /\ Classified /\ in.Registry # "" /\ ExactlyOneVaultSecret
    /\ in.Username = "" /\ in.Identity = "" /\ in.ArmResource = ""
    /\ result = Fail(errInvalidUsername)

\* C6: with a non-empty registry and both type fields empty, the result is
\* errInvalidIdentity if identity is empty, else errInvalidArmResourceID if
\* armResource is empty, else a credential holding only registry, identity and
\* armResource.
C6_ManagedIdentityFieldsAndDrop ==
    (Classified /\ in.Registry # ""
       /\ in.UsernameType = EmptyType /\ in.PasswordType = EmptyType) =>
        IF in.Identity = "" THEN result = Fail(errInvalidIdentity)
        ELSE IF in.ArmResource = "" THEN result = Fail(errInvalidArmResourceID)
        ELSE result = Return(RegistryCredential(in.Registry, "", EmptyType, "",
                                                EmptyType, in.Identity, in.ArmResource))

\* a managed-identity input that supplied a username and a password
C6_Witness ==
    /\ Classified
    /\ in.UsernameType = EmptyType /\ in.PasswordType = EmptyType
    /\ in.Username # "" /\ in.Password # ""
    /\ result.retVal # <<>>
    /\ result.retVal[1].Username = "" /\ result.retVal[1].Password = ""

TypeEnum == { Opaque, VaultSecret, EmptyType }

\* C7: every returned credential has both type tags in {"opaque",
\* "vaultsecret", ""}: an input with any other case-folded type value never
\* produces a credential.
C7_TypeTagsAreEnumerated ==
    (cpc = "done" /\ result.retVal # <<>>) =>
        /\ result.retVal[1].UsernameType \in TypeEnum
        /\ result.retVal[1].PasswordType \in TypeEnum

(***************************************************************************)
(* Properties of PopulateDigest, checked under SpecResolve.                *)
(***************************************************************************)
\* a call has returned
Returned == calls > 0 /\ pc = "idle"

\* C8: ref.Digest changes only in the step in which the resolver returns
\* successfully and the call returns nil; every step that ends a call with an
\* error leaves ref.Digest as it was at the start of the call, empty.
C8_DigestWrittenOnlyOnSuccess ==
    [][ /\ ref'.Digest # ref.Digest =>
            /\ pc = "resolving" /\ pc' = "idle"
            /\ ret' = NilError
            /\ ref'.Digest \in ResolverDigests
        /\ (pc' = "idle" /\ calls' > 0 /\ ret'.kind # NoError) =>
            /\ ref' = refAtCall'
            /\ ref'.Digest = ""
      ]_vars

\* a call that ended with the context cancelled during the resolver's call
C8_Witness ==
    /\ Returned /\ ctxDone
    /\ Len(invocations) = 1
    /\ ret = errResolve(ref, "context canceled")
    /\ ref.Digest = ""

ShortCircuitCase ==
    \/ argNil
    \/ refAtCall.Digest # ""
    \/ refAtCall.Reference = NoBaseImageSpecifierLatest

\* C9: a call with a nil reference, a populated digest or the "no base image"
\* marker returns nil at once, calls neither the parser nor the resolver and
\* leaves the reference unchanged; and once a call on the reference has
\* returned nil, no later call invokes the resolver or changes the reference.
C9_ShortCircuitAndIdempotence ==
    /\ (calls > 0 /\ ShortCircuitCase) =>
        /\ pc = "idle" /\ ret = NilError
        /\ parserCalls = 0 /\ invocations = <<>>
        /\ ref = refAtCall
    /\ (priorSuccess /\ ~argNil) =>
        /\ pc = "idle" /\ ret = NilError
        /\ invocations = <<>>
        /\ ref = refAtCall

\* a second call on a reference whose digest an earlier call resolved
C9_Witness ==
    /\ Returned /\ priorSuccess /\ ~argNil
    /\ refAtCall.Digest \in ResolverDigests
    /\ refAtCall.Reference # NoBaseImageSpecifierLatest
    /\ ref.Digest = refAtCall.Digest

EntryWithEmptyValue ==
    /\ refAtCall.Registry \in DOMAIN registryCreds
    /\ \/ registryCreds[refAtCall.Registry].Username = ""
       \/ registryCreds[refAtCall.Registry].Password = ""

====
